---- MODULE Spec2Model ----
(***************************************************************************)
(* Model of the task-submission pipeline of TDS_Project1:                  *)
(*   src/student_api/main.py   (generate_app and its helpers)              *)
(*   src/llm_agent/generator.py (generate_app_code)                        *)
(*                                                                         *)
(* One run of generate_app is a sequence of steps of one request slot.     *)
(* The handler is an `async def` whose only await is `request.json()`;     *)
(* everything after it is blocking code, so within one server process the  *)
(* body of a run is executed without interleaving with other runs.  The    *)
(* staging folder, the folder's git repository and the hosting service     *)
(* persist across runs.                                                    *)
(***************************************************************************)
EXTENDS Integers, Sequences, FiniteSets, TLC

VARIABLES
    env,        \* process environment read at import / at call time
    fs,         \* generated_app/<task>/ : app.py, README.md, LICENSE
    git,        \* state of the git repository inside generated_app/<task>/
    repos,      \* repositories on the hosting service, by name
    published,  \* history: tasks for which init_git_and_push returned with every step ok
    pc,         \* position of each run in generate_app
    data,       \* parsed request body of each run
    code,       \* local `code` of generate_app
    loc,        \* locals repo_url, commit_sha, pages_url, payload, success
    att,        \* index of the current element of `retries` in post_to_evaluation_url
    aicalls,    \* history: POSTs the run made to the generation backend
    answer,     \* history: what the generation backend answered to the run
    faults,     \* history: git commands of the run made to fail from outside
    calls,      \* history: components invoked by the run, in order
    failed,     \* history: steps of the run that failed, in order
    net,        \* history: POSTs and sleeps of post_to_evaluation_url, in order
    seen,       \* history: the repository of its task the run found when it started
    outcome     \* what the run ends with: a JSON response or a propagated exception

vars == <<env, fs, git, repos, published, pc, data, code, loc, att, aicalls, answer,
          faults, calls, failed, net, seen, outcome>>

envVars == <<env, fs, git, repos, published>>
runVars == <<pc, data, code, loc, att, aicalls, answer, faults, calls, failed, net, seen, outcome>>

----------------------------------------------------------------------------
(* Bounds of the model *)

\* largest number of required keys a modelled request leaves out
MaxMissing == 1

\* largest number of git commands of one run that fail for reasons outside
\* the program (a git command also fails, without such a fault, when an
\* earlier one left it nothing to work on)
MaxGitFaults == 1

\* request slots of the server
Runs == {"r1", "r2"}

Tasks == {"t1"}

\* task names of two submissions that are in flight together
PairTasks == {"t1", "t2"}
AllTasks == Tasks \cup PairTasks
Nonces == {"n1", "n2"}

\* Python None / JSON null, and an absent file
None == "<None>"
NoFile == <<"<absent>">>

----------------------------------------------------------------------------
(* Program constants *)

\* main.py:107
RequiredFields == <<"email", "secret", "task", "round", "nonce", "brief", "evaluation_url">>

\* main.py:82
retries == <<1, 2, 4, 8>>

\* main.py:52-57
LicenseText == <<"M", "I", "T">>

\* values a request may carry
Secrets == {"S", "W", None}
FieldValue(f, t, n, s) ==
    CASE f = "email" -> "a@b.com"
      [] f = "secret" -> s
      [] f = "task" -> t
      [] f = "round" -> 1
      [] f = "nonce" -> n
      [] f = "brief" -> "hello"
      [] f = "evaluation_url" -> "http://eval/cb"

RangeOf(s) == {s[i] : i \in DOMAIN s}

\* the JSON objects a client may send: any task, nonce and secret, with at
\* most MaxMissing of the required keys left out
Requests ==
    { [f \in (RangeOf(RequiredFields) \ miss) |-> FieldValue(f, t, n, s)] :
        miss \in {m \in SUBSET RangeOf(RequiredFields) : Cardinality(m) <= MaxMissing},
        t \in Tasks, n \in Nonces, s \in Secrets }

----------------------------------------------------------------------------
(* JSON values as Python sees them after response.json() *)

JNull == [t |-> "null"]
JStr(cs) == [t |-> "str", v |-> cs]
JList(xs) == [t |-> "list", v |-> xs]
JDict(f) == [t |-> "dict", v |-> f]

Ok(x) == [ok |-> TRUE, val |-> x]
Exc(e) == [ok |-> FALSE, exc |-> e]

\* Python obj["k"]
GetKey(obj, k) ==
    IF obj.t = "dict"
    THEN IF k \in DOMAIN obj.v THEN Ok(obj.v[k]) ELSE Exc("KeyError")
    ELSE Exc("TypeError")

\* Python obj[0]
GetFirst(obj) ==
    CASE obj.t = "list" -> IF Len(obj.v) >= 1 THEN Ok(obj.v[1]) ELSE Exc("IndexError")
      [] obj.t = "str" -> IF Len(obj.v) >= 1 THEN Ok(JStr(<<obj.v[1]>>)) ELSE Exc("IndexError")
      [] obj.t = "dict" -> Exc("KeyError")
      [] OTHER -> Exc("TypeError")

\* generator.py:48   data["choices"][0]["message"]["content"]
ExtractContent(d) ==
    LET a == GetKey(d, "choices") IN
    IF ~a.ok THEN a ELSE
    LET b == GetFirst(a.val) IN
    IF ~b.ok THEN b ELSE
    LET c == GetKey(b.val, "message") IN
    IF ~c.ok THEN c ELSE GetKey(c.val, "content")

IsSpace(ch) == ch \in {" ", "\n"}

RECURSIVE LStrip(_)
LStrip(cs) == IF cs # <<>> /\ IsSpace(Head(cs)) THEN LStrip(Tail(cs)) ELSE cs

RECURSIVE RStrip(_)
RStrip(cs) ==
    IF cs # <<>> /\ IsSpace(cs[Len(cs)]) THEN RStrip(SubSeq(cs, 1, Len(cs) - 1)) ELSE cs

\* Python str.strip()
Strip(cs) == RStrip(LStrip(cs))

\* Python `not x` for an environment value
Falsy(x) == x = None \/ x = ""

\* generator.py:5-52.  `backend` is what the generation backend does with the
\* one POST it may receive.  The result says whether the function raised,
\* what it returned and how many POSTs it made.
\* a failure that is only noticed after the POST has been made
RaisedAfterPost(e, n) == [raised |-> TRUE, exc |-> e, value |-> NoFile, posts |-> 1]

Raised(e, n) == [raised |-> TRUE, exc |-> e, value |-> NoFile, posts |-> n]
Returned(x, n) == [raised |-> FALSE, exc |-> "", value |-> x, posts |-> n]

generate_app_code(api_url, api_key, backend) ==
    IF Falsy(api_url) \/ Falsy(api_key) THEN Raised("ValueError: missing configuration", 0)
    ELSE IF backend.kind = "unreachable" THEN Raised("ConnectionError", 1)
    ELSE IF backend.status # 200 THEN Raised("RuntimeError: request failed", 1)
    ELSE IF backend.kind = "notjson" THEN Raised("JSONDecodeError", 1)
    ELSE LET x == ExtractContent(backend.json) IN
         IF ~x.ok
         THEN IF x.exc \in {"KeyError", "IndexError"}
              THEN Raised("RuntimeError: unexpected response", 1)
              ELSE Raised(x.exc, 1)
         ELSE IF x.val.t # "str" THEN Raised("AttributeError", 1)
         ELSE Returned(Strip(x.val.v), 1)

\* a well-formed chat completion carrying `content`
Completion(content) ==
    JDict([choices |-> JList(<<JDict([message |-> JDict([content |-> content])])>>)])

\* source texts the backend may produce
Contents == { <<>>, <<" ">>, <<" ", "y", "\n">> }

\* no POST has reached the generation backend
NoAnswer == [kind |-> "none", status |-> 0, json |-> JNull]

\* answers of the generation backend
Backends ==
    { [kind |-> "unreachable", status |-> 0, json |-> JNull],
      [kind |-> "http", status |-> 500, json |-> JNull],
      [kind |-> "notjson", status |-> 200, json |-> JNull] }
    \cup { [kind |-> "http", status |-> 200, json |-> j] :
            j \in { Completion(JStr(c)) : c \in Contents }
                \cup { Completion(JNull),
                       JDict([error |-> JStr(<<"x">>)]),
                       JDict([choices |-> JList(<<>>)]),
                       JDict([choices |-> JNull]),
                       JDict([choices |-> JList(<<JDict([message |-> JNull])>>)]),
                       JDict([choices |-> JList(<<JDict([message |-> JStr(<<"x">>)])>>)]),
                       JDict([choices |-> JList(<<JDict([message |-> JDict([role |-> JStr(<<"x">>)])])>>)]),
                       JList(<<>>) } }

----------------------------------------------------------------------------
(* State of a run and of its surroundings *)

\* login of the account GITHUB_TOKEN belongs to
Login == "alice"

EmptyFolder == [app |-> NoFile, readme |-> NoFile, license |-> NoFile]
NoGit == [init |-> FALSE, index |-> EmptyFolder, head |-> EmptyFolder,
          main |-> FALSE, remote |-> FALSE]
NoRepo == [exists |-> FALSE, content |-> EmptyFolder, pages |-> FALSE, by |-> NoFile]

NoPayload == [email |-> None, task |-> None, round |-> 0, nonce |-> None,
              repo_url |-> None, commit_sha |-> None, pages_url |-> None]
NoLocals == [repo_url |-> None, commit_sha |-> None, pages_url |-> None,
             payload |-> NoPayload, success |-> FALSE]
NothingSeen == [repo |-> NoRepo, published |-> FALSE]

NoOutcome == [kind |-> "none"]
Json(b) == [kind |-> "json", body |-> b]
Propagated(e) == [kind |-> "raised", exc |-> e]

Environments ==
    [ STUDENT_SECRET : {"S", None},
      AI_PIPE_API_URL : {"http://aipipe", None},
      AI_PIPE_API_KEY : {"k", None},
      GITHUB_USERNAME : {"alice"},
      workers : {"one"} ]

\* nothing staged, nothing published, no request in flight
Start ==
    /\ fs = [t \in AllTasks |-> EmptyFolder]
    /\ git = [t \in AllTasks |-> NoGit]
    /\ repos = [t \in AllTasks |-> NoRepo]
    /\ published = {}
    /\ pc = [r \in Runs |-> "idle"]
    /\ data = [r \in Runs |-> <<>>]
    /\ code = [r \in Runs |-> NoFile]
    /\ loc = [r \in Runs |-> NoLocals]
    /\ att = [r \in Runs |-> 0]
    /\ aicalls = [r \in Runs |-> 0]
    /\ answer = [r \in Runs |-> NoAnswer]
    /\ faults = [r \in Runs |-> 0]
    /\ calls = [r \in Runs |-> <<>>]
    /\ failed = [r \in Runs |-> <<>>]
    /\ net = [r \in Runs |-> <<>>]
    /\ seen = [r \in Runs |-> NothingSeen]
    /\ outcome = [r \in Runs |-> NoOutcome]

Init ==
    /\ env \in Environments
    /\ Start

\* the handler's blocking body runs on the event loop of its server process:
\* with one server process a run enters it only while no other run is inside
\* it; with several processes the runs of different processes interleave
LoopFree(r) ==
    \/ env.workers = "many"
    \/ \A q \in Runs \ {r} : pc[q] \in {"idle", "await_json"}

\* the run ends with the exception e propagating out of generate_app at step
Raise(r, step, e) ==
    /\ pc' = [pc EXCEPT ![r] = "done"]
    /\ failed' = [failed EXCEPT ![r] = Append(@, step)]
    /\ outcome' = [outcome EXCEPT ![r] = Propagated(e)]

\* the run ends with the JSON response b
Return(r, b) ==
    /\ pc' = [pc EXCEPT ![r] = "done"]
    /\ outcome' = [outcome EXCEPT ![r] = Json(b)]

Goto(r, l) == pc' = [pc EXCEPT ![r] = l]

----------------------------------------------------------------------------
(* generate_app, main.py:94-150 *)

\* a request arrives and the handler starts: main.py:95
Receive(r) ==
    /\ pc[r] = "idle"
    /\ Goto(r, "await_json")
    /\ UNCHANGED <<envVars, data, code, loc, att, aicalls, answer, faults, calls, failed, net, seen, outcome>>

\* main.py:101-104
ParseJson(r) ==
    /\ pc[r] = "await_json"
    /\ LoopFree(r)
    /\ \/ /\ Return(r, [error |-> "Invalid JSON"])
          /\ failed' = [failed EXCEPT ![r] = Append(@, "validation")]
          /\ UNCHANGED data
       \/ /\ \E req \in Requests : data' = [data EXCEPT ![r] = req]
          /\ Goto(r, "validate")
          /\ UNCHANGED <<failed, outcome>>
    /\ UNCHANGED <<envVars, code, loc, att, aicalls, answer, faults, calls, net, seen>>

\* a check that stops one short of the end of the list of required fields
RECURSIVE FirstMissingButLast(_, _)
FirstMissingButLast(d, fields) ==
    IF Len(fields) <= 1 THEN None
    ELSE IF Head(fields) \notin DOMAIN d THEN Head(fields)
    ELSE FirstMissingButLast(d, Tail(fields))

\* main.py:107-109: the first required field, in list order, that d lacks
RECURSIVE FirstMissing(_, _)
FirstMissing(d, fields) ==
    IF fields = <<>> THEN None
    ELSE IF Head(fields) \notin DOMAIN d THEN Head(fields)
    ELSE FirstMissing(d, Tail(fields))

\* a check that is skipped when no shared secret is configured
SecretOkWhenConfigured(d, secret) == secret = None \/ ~(d["secret"] # secret)

\* main.py:111
SecretOk(d, secret) == ~(d["secret"] # secret)

\* main.py:106-115
Validate(r) ==
    /\ pc[r] = "validate"
    /\ LET d == data[r]
           m == FirstMissing(d, RequiredFields)
       IN  IF m # None
           THEN /\ Return(r, [error |-> "Missing field: " \o m])
                /\ failed' = [failed EXCEPT ![r] = Append(@, "validation")]
                /\ UNCHANGED seen
           ELSE IF ~SecretOk(d, env.STUDENT_SECRET)
           THEN /\ Return(r, [error |-> "Invalid secret"])
                /\ failed' = [failed EXCEPT ![r] = Append(@, "validation")]
                /\ UNCHANGED seen
           ELSE /\ Goto(r, "synth")
                /\ seen' = [seen EXCEPT ![r] =
                               [repo |-> repos[d["task"]],
                                published |-> d["task"] \in published]]
                /\ UNCHANGED <<failed, outcome>>
    /\ UNCHANGED <<envVars, data, code, loc, att, aicalls, answer, faults, calls, net>>

\* main.py:118
Synthesize(r) ==
    /\ pc[r] = "synth"
    /\ calls' = [calls EXCEPT ![r] = Append(@, "synth")]
    /\ \E backend \in Backends :
        LET res == generate_app_code(env.AI_PIPE_API_URL, env.AI_PIPE_API_KEY, backend) IN
        /\ aicalls' = [aicalls EXCEPT ![r] = @ + res.posts]
        /\ answer' = [answer EXCEPT ![r] = IF res.posts > 0 THEN backend ELSE @]
        /\ IF res.raised
           THEN /\ Raise(r, "synth", res.exc)
                /\ UNCHANGED code
           ELSE /\ code' = [code EXCEPT ![r] = res.value]
                /\ Goto(r, "save_code")
                /\ UNCHANGED <<failed, outcome>>
    /\ UNCHANGED <<envVars, data, loc, att, faults, net, seen>>

----------------------------------------------------------------------------
(* Staging: main.py:37-59 and 120-129 *)

\* main.py:46-49
create_readme(task, brief) == <<"# ", task, "## Brief", brief, "## Usage">>

TaskOf(r) == data[r]["task"]

\* main.py:121 and 37-44.  makedirs or the write may fail with OSError
SaveCode(r) ==
    /\ pc[r] = "save_code"
    /\ calls' = [calls EXCEPT ![r] = Append(@, "stage")]
    /\ \/ /\ fs' = [fs EXCEPT ![TaskOf(r)].app = code[r]]
          /\ Goto(r, "write_readme")
          /\ UNCHANGED <<failed, outcome>>
       \/ /\ Raise(r, "stage", "OSError")
          /\ UNCHANGED fs
    /\ UNCHANGED <<env, git, repos, published, data, code, loc, att, aicalls, answer, faults, net, seen>>

\* main.py:124-126
WriteReadme(r) ==
    /\ pc[r] = "write_readme"
    /\ \/ /\ fs' = [fs EXCEPT ![TaskOf(r)].readme = create_readme(TaskOf(r), data[r]["brief"])]
          /\ Goto(r, "add_license")
          /\ UNCHANGED <<failed, outcome>>
       \/ /\ Raise(r, "stage", "OSError")
          /\ UNCHANGED fs
    /\ UNCHANGED <<env, git, repos, published, data, code, loc, att, aicalls, answer, faults, calls, net, seen>>

\* main.py:129 and 51-59
AddLicense(r) ==
    /\ pc[r] = "add_license"
    /\ \/ /\ fs' = [fs EXCEPT ![TaskOf(r)].license = LicenseText]
          /\ Goto(r, "create_repo")
          /\ UNCHANGED <<failed, outcome>>
       \/ /\ Raise(r, "stage", "OSError")
          /\ UNCHANGED fs
    /\ UNCHANGED <<env, git, repos, published, data, code, loc, att, aicalls, answer, faults, calls, net, seen>>

----------------------------------------------------------------------------
(* Publication: init_git_and_push, main.py:61-78 *)

\* PyGithub's Repository.clone_url
CloneUrl(name) == "https://github.com/" \o Login \o "/" \o name \o ".git"

\* main.py:77.  An unset GITHUB_USERNAME is formatted as "None"
PagesUrl(username, name) ==
    "https://" \o (IF username = None THEN "None" ELSE username) \o ".github.io/" \o name \o "/"

\* a hosting service that never reports a name as taken
NameNeverTaken(rs, name) == FALSE

\* the hosting service's check of the name in create_repo, main.py:65
NameTaken(rs, name) == rs[name].exists

\* main.py:63-65.  create_repo creates the repository unless the name is
\* taken, in one step of the hosting service; it raises GithubException when
\* the name is taken or when the service refuses or cannot be reached.
\* `by` remembers the source text of the run that created the repository.
CreateRepo(r) ==
    /\ pc[r] = "create_repo"
    /\ calls' = [calls EXCEPT ![r] = Append(@, "publish")]
    /\ \/ /\ ~NameTaken(repos, TaskOf(r))
          /\ repos' = [repos EXCEPT ![TaskOf(r)].exists = TRUE, ![TaskOf(r)].by = code[r]]
          /\ Goto(r, "git_init")
          /\ UNCHANGED <<failed, outcome>>
       \/ /\ NameTaken(repos, TaskOf(r))
          /\ Raise(r, "create_repo", "GithubException: name already exists")
          /\ UNCHANGED repos
       \/ /\ Raise(r, "create_repo", "GithubException")
          /\ UNCHANGED repos
    /\ UNCHANGED <<env, fs, git, published, data, code, loc, att, aicalls, answer, faults, net, seen>>

\* subprocess.run without check=True: a non-zero exit status of git is not
\* looked at and the next statement runs (main.py:68-73).  `done` is whether
\* the command took effect; the step is recorded as failed when it did not.
GitStep(r, here, next, name, works, done, newgit, newrepos) ==
    /\ pc[r] = here
    /\ ~works => faults[r] < MaxGitFaults
    /\ faults' = [faults EXCEPT ![r] = IF works THEN @ ELSE @ + 1]
    /\ IF done
       THEN /\ git' = [git EXCEPT ![TaskOf(r)] = newgit]
            /\ repos' = newrepos
            /\ UNCHANGED failed
       ELSE /\ failed' = [failed EXCEPT ![r] = Append(@, name)]
            /\ UNCHANGED <<git, repos>>
    /\ Goto(r, next)
    /\ UNCHANGED <<env, fs, published, data, code, loc, att, aicalls, answer, calls, net, seen, outcome>>

\* main.py:68
GitInit(r) ==
    \E works \in BOOLEAN :
        LET g == git[TaskOf(r)] IN
        GitStep(r, "git_init", "git_add", "git init", works, works,
                [g EXCEPT !.init = TRUE], repos)

\* main.py:69
GitAdd(r) ==
    \E works \in BOOLEAN :
        LET g == git[TaskOf(r)] IN
        GitStep(r, "git_add", "git_commit", "git add", works, works /\ g.init,
                [g EXCEPT !.index = fs[TaskOf(r)]], repos)

\* main.py:70.  git commit exits non-zero when there is nothing to commit
GitCommit(r) ==
    \E works \in BOOLEAN :
        LET g == git[TaskOf(r)] IN
        GitStep(r, "git_commit", "git_branch", "git commit", works, works /\ g.init /\ g.index # g.head,
                [g EXCEPT !.head = g.index], repos)

\* main.py:71
GitBranch(r) ==
    \E works \in BOOLEAN :
        LET g == git[TaskOf(r)] IN
        GitStep(r, "git_branch", "git_remote", "git branch", works, works /\ g.init /\ g.head # EmptyFolder,
                [g EXCEPT !.main = TRUE], repos)

\* main.py:72.  git remote add exits non-zero when origin already exists
GitRemoteAdd(r) ==
    \E works \in BOOLEAN :
        LET g == git[TaskOf(r)] IN
        GitStep(r, "git_remote", "git_push", "git remote add", works, works /\ g.init /\ ~g.remote,
                [g EXCEPT !.remote = TRUE], repos)

\* main.py:73
GitPush(r) ==
    \E works \in BOOLEAN :
        LET g == git[TaskOf(r)] IN
        GitStep(r, "git_push", "enable_pages", "git push", works, works /\ g.init /\ g.main /\ g.remote /\ repos[TaskOf(r)].exists,
                g, [repos EXCEPT ![TaskOf(r)].content = g.head])

\* main.py:76-78, and the assignment of the returned triple at main.py:132
EnablePages(r) ==
    /\ pc[r] = "enable_pages"
    /\ \/ /\ repos' = [repos EXCEPT ![TaskOf(r)].pages = TRUE]
          /\ loc' = [loc EXCEPT ![r].repo_url = CloneUrl(TaskOf(r)),
                                ![r].commit_sha = "main",
                                ![r].pages_url = PagesUrl(env.GITHUB_USERNAME, TaskOf(r))]
          /\ published' = IF failed[r] = <<>> THEN published \cup {TaskOf(r)} ELSE published
          /\ Goto(r, "build_payload")
          /\ UNCHANGED <<failed, outcome>>
       \/ /\ Raise(r, "enable pages", "GithubException")
          /\ UNCHANGED <<repos, loc, published>>
    /\ UNCHANGED <<env, fs, git, data, code, att, aicalls, answer, faults, calls, net, seen>>

----------------------------------------------------------------------------
(* Notification: main.py:134-146 and post_to_evaluation_url, main.py:80-91 *)

\* a payload whose commit_sha is filled from the repository URL
PayloadMixedUp(d, l) ==
    [email |-> d["email"], task |-> d["task"], round |-> d["round"], nonce |-> d["nonce"],
     repo_url |-> l.repo_url, commit_sha |-> l.repo_url, pages_url |-> l.pages_url]

\* main.py:135-143
Payload(d, l) ==
    [email |-> d["email"], task |-> d["task"], round |-> d["round"], nonce |-> d["nonce"],
     repo_url |-> l.repo_url, commit_sha |-> l.commit_sha, pages_url |-> l.pages_url]

\* main.py:135-146: the payload is built and post_to_evaluation_url is
\* called; main.py:82-83: the loop starts at the first element of retries
BuildPayload(r) ==
    /\ pc[r] = "build_payload"
    /\ loc' = [loc EXCEPT ![r].payload = Payload(data[r], loc[r])]
    /\ calls' = [calls EXCEPT ![r] = Append(@, "notify")]
    /\ att' = [att EXCEPT ![r] = 1]
    /\ Goto(r, "post")
    /\ UNCHANGED <<envVars, data, code, aicalls, answer, faults, failed, net, seen, outcome>>

\* what one POST to the callback can end in: a status code or an exception
PostResults == {"200", "500", "exception"}

\* a body that carries the number of the attempt in place of the round
PostBodyPerAttempt(l, i) == [l.payload EXCEPT !.round = i]

\* json=data at main.py:85: the body of the POST of attempt i
PostBody(l, i) == l.payload

\* a delay that doubles from 2 instead of 1
DelayFromTwo(i) == 2 * retries[i]

\* main.py:90: the sleep after the failed attempt i
Delay(i) == retries[i]

\* main.py:84-89: one POST.  A 200 returns True; anything else goes on to the sleep
Post(r) ==
    /\ pc[r] = "post"
    /\ \E res \in PostResults :
        /\ net' = [net EXCEPT ![r] = Append(@, [ev |-> "post", url |-> data[r]["evaluation_url"],
                                                 body |-> PostBody(loc[r], att[r]),
                                                 ok |-> (res = "200"), secs |-> 0])]
        /\ IF res = "200"
           THEN /\ loc' = [loc EXCEPT ![r].success = TRUE]
                /\ Goto(r, "respond")
           ELSE /\ Goto(r, "sleep")
                /\ UNCHANGED loc
    /\ UNCHANGED <<envVars, data, code, att, aicalls, answer, faults, calls, failed, seen, outcome>>

\* main.py:83: whether the loop has another element after index i
HasNext(i) == i < Len(retries)

\* main.py:90-91: the sleep after a failed attempt, then the next element of
\* retries, or return False when there is none
Sleep(r) ==
    /\ pc[r] = "sleep"
    /\ net' = [net EXCEPT ![r] = Append(@, [ev |-> "sleep", url |-> "", body |-> NoPayload,
                                             ok |-> FALSE, secs |-> Delay(att[r])])]
    /\ IF HasNext(att[r])
       THEN /\ att' = [att EXCEPT ![r] = @ + 1]
            /\ Goto(r, "post")
            /\ UNCHANGED <<loc, failed>>
       ELSE /\ loc' = [loc EXCEPT ![r].success = FALSE]
            /\ failed' = [failed EXCEPT ![r] = Append(@, "notify")]
            /\ Goto(r, "respond")
            /\ UNCHANGED att
    /\ UNCHANGED <<envVars, data, code, aicalls, answer, faults, calls, seen, outcome>>

\* main.py:150
SuccessBody(l) ==
    [message |-> "Task completed successfully", repo_url |-> l.repo_url, pages_url |-> l.pages_url]

\* main.py:148
NotifyFailedBody(l) == [error |-> "Failed to post to evaluation_url after retries"]

\* main.py:147-150
Respond(r) ==
    /\ pc[r] = "respond"
    /\ IF ~loc[r].success
       THEN Return(r, NotifyFailedBody(loc[r]))
       ELSE Return(r, SuccessBody(loc[r]))
    /\ UNCHANGED <<envVars, data, code, loc, att, aicalls, answer, faults, calls, failed, net, seen>>

\* the response has been sent; the slot is free for the next request
Finish(r) ==
    /\ pc[r] = "done"
    /\ pc' = [pc EXCEPT ![r] = "idle"]
    /\ data' = [data EXCEPT ![r] = <<>>]
    /\ code' = [code EXCEPT ![r] = NoFile]
    /\ loc' = [loc EXCEPT ![r] = NoLocals]
    /\ att' = [att EXCEPT ![r] = 0]
    /\ aicalls' = [aicalls EXCEPT ![r] = 0]
    /\ answer' = [answer EXCEPT ![r] = NoAnswer]
    /\ faults' = [faults EXCEPT ![r] = 0]
    /\ calls' = [calls EXCEPT ![r] = <<>>]
    /\ failed' = [failed EXCEPT ![r] = <<>>]
    /\ net' = [net EXCEPT ![r] = <<>>]
    /\ seen' = [seen EXCEPT ![r] = NothingSeen]
    /\ outcome' = [outcome EXCEPT ![r] = NoOutcome]
    /\ UNCHANGED envVars

Next ==
    \E r \in Runs :
        \/ Receive(r)
        \/ ParseJson(r)
        \/ Validate(r)
        \/ Synthesize(r)
        \/ SaveCode(r)
        \/ WriteReadme(r)
        \/ AddLicense(r)
        \/ CreateRepo(r)
        \/ GitInit(r)
        \/ GitAdd(r)
        \/ GitCommit(r)
        \/ GitBranch(r)
        \/ GitRemoteAdd(r)
        \/ GitPush(r)
        \/ EnablePages(r)
        \/ BuildPayload(r)
        \/ Post(r)
        \/ Sleep(r)
        \/ Respond(r)
        \/ Finish(r)

Spec == Init /\ [][Next]_vars

----------------------------------------------------------------------------
(* Two submissions in flight together: every variable of the server is       *)
(* configured, each request slot handles one valid request, and the server  *)
(* runs as one process or as several.                                       *)

PairEnvironments ==
    [ STUDENT_SECRET : {"S"},
      AI_PIPE_API_URL : {"http://aipipe"},
      AI_PIPE_API_KEY : {"k"},
      GITHUB_USERNAME : {"alice"},
      workers : {"one", "many"} ]

\* the first slot gets a submission for t1, the other one for the same task
\* or for an unrelated one
PairRequests(r) ==
    { [f \in RangeOf(RequiredFields) |-> FieldValue(f, t, "n1", "S")] :
        t \in IF r = "r1" THEN {"t1"} ELSE PairTasks }

InitPair ==
    /\ env \in PairEnvironments
    /\ Start

\* main.py:101-102 for a body that is a valid submission
ParsePair(r) ==
    /\ pc[r] = "await_json"
    /\ LoopFree(r)
    /\ \E req \in PairRequests(r) : data' = [data EXCEPT ![r] = req]
    /\ Goto(r, "validate")
    /\ UNCHANGED <<envVars, code, loc, att, aicalls, answer, faults, calls, failed, net, seen, outcome>>

NextPair ==
    \E r \in Runs :
        \/ Receive(r)
        \/ ParsePair(r)
        \/ Validate(r)
        \/ Synthesize(r)
        \/ SaveCode(r)
        \/ WriteReadme(r)
        \/ AddLicense(r)
        \/ CreateRepo(r)
        \/ GitInit(r)
        \/ GitAdd(r)
        \/ GitCommit(r)
        \/ GitBranch(r)
        \/ GitRemoteAdd(r)
        \/ GitPush(r)
        \/ EnablePages(r)
        \/ BuildPayload(r)
        \/ Post(r)
        \/ Sleep(r)
        \/ Respond(r)

SpecPair == InitPair /\ [][NextPair]_vars

----------------------------------------------------------------------------
(* Vocabulary of the properties *)

Required == RangeOf(RequiredFields)

\* the run has a parsed JSON object
Parsed(r) == pc[r] \notin {"idle", "await_json"} /\ DOMAIN data[r] # {}
HasAll(d) == \A f \in Required : f \in DOMAIN d
Finished(r) == pc[r] = "done"

\* no synthesis, staging, publication or notification call was made by the run
NoSideEffect(r) == calls[r] = <<>> /\ aicalls[r] = 0 /\ net[r] = <<>>

ErrorResponse(o) == o.kind = "json" /\ "error" \in DOMAIN o.body

Pipeline == <<"synth", "stage", "publish", "notify">>
IsPrefix(s, t) == Len(s) <= Len(t) /\ \A i \in DOMAIN s : s[i] = t[i]

PublicationSteps ==
    {"create_repo", "git init", "git add", "git commit", "git branch",
     "git remote add", "git push", "enable pages"}

\* position in Pipeline of the component a failed step belongs to; 0 for validation
ComponentIndex(step) ==
    CASE step = "synth" -> 1
      [] step = "stage" -> 2
      [] step \in PublicationSteps -> 3
      [] step = "notify" -> 4
      [] OTHER -> 0

FailedSteps(r) == RangeOf(failed[r])

Posts(r) == {i \in DOMAIN net[r] : net[r][i].ev = "post"}
Sleeps(r) == {i \in DOMAIN net[r] : net[r][i].ev = "sleep"}
OkPosts(r) == {i \in Posts(r) : net[r][i].ok}

\* post_to_evaluation_url has returned
NotifyReturned(r) == "notify" \in RangeOf(calls[r]) /\ pc[r] \in {"respond", "done"}

----------------------------------------------------------------------------
(* Properties *)

\* C1: a request that lacks one of the seven required keys gets the error
\* response "Missing field: <f>" for a key f it lacks, and its run makes no
\* synthesis, staging, publication or notification call.
C1_MissingFieldRejected ==
    \A r \in Runs :
        (Parsed(r) /\ ~HasAll(data[r])) =>
            /\ pc[r] \in {"validate", "done"}
            /\ NoSideEffect(r)
            /\ Finished(r) =>
                /\ outcome[r].kind = "json"
                /\ DOMAIN outcome[r].body = {"error"}
                /\ \E f \in Required \ DOMAIN data[r] :
                      outcome[r].body.error = "Missing field: " \o f

C1_Witness ==
    \E r \in Runs :
        /\ Finished(r) /\ Parsed(r)
        /\ "evaluation_url" \notin DOMAIN data[r]
        /\ outcome[r] = Json([error |-> "Missing field: evaluation_url"])
        /\ NoSideEffect(r)

\* C2: a request with all seven keys whose secret differs from the configured
\* shared secret gets the error response "Invalid secret", and its run makes
\* no synthesis, staging, publication or notification call.
C2_WrongSecretRejected ==
    \A r \in Runs :
        (Parsed(r) /\ HasAll(data[r]) /\ data[r]["secret"] # env.STUDENT_SECRET) =>
            /\ pc[r] \in {"validate", "done"}
            /\ NoSideEffect(r)
            /\ Finished(r) => outcome[r] = Json([error |-> "Invalid secret"])

C2_Witness ==
    \E r \in Runs :
        /\ Finished(r) /\ Parsed(r) /\ HasAll(data[r])
        /\ data[r]["secret"] = "W" /\ env.STUDENT_SECRET = "S"
        /\ outcome[r] = Json([error |-> "Invalid secret"])
        /\ NoSideEffect(r)

\* C3: the components are invoked in the order synthesis, staging,
\* publication, notification, each at most once, and once a step of
\* synthesis, staging or publication has failed no later component is invoked.
C3_OrderedAndAborting ==
    \A r \in Runs :
        /\ IsPrefix(calls[r], Pipeline)
        /\ \A s \in FailedSteps(r) :
              ComponentIndex(s) \in 1..3 => Len(calls[r]) <= ComponentIndex(s)

\* C4: when a step of publication fails, publication stops at that step, the
\* run ends with an error response and no POST to the callback is made.
C4_PublicationFailureStops ==
    \A r \in Runs :
        (FailedSteps(r) \cap PublicationSteps # {}) =>
            /\ Finished(r)
            /\ ErrorResponse(outcome[r])
            /\ Posts(r) = {}
            /\ Cardinality(FailedSteps(r) \cap PublicationSteps) = 1

\* C5: when every attempt fails, post_to_evaluation_url makes exactly 4 POSTs,
\* returns False without raising, and its delays are taken in order from
\* 1, 2, 4, 8, each of them between two consecutive attempts: every sleep is
\* followed by another POST.
C5_AllFailDelaysOnlyBetween ==
    \A r \in Runs :
        (NotifyReturned(r) /\ OkPosts(r) = {}) =>
            /\ Cardinality(Posts(r)) = 4
            /\ ~loc[r].success
            /\ outcome[r].kind # "raised"
            /\ \A i \in Sleeps(r) :
                  /\ i > 1 /\ net[r][i - 1].ev = "post"
                  /\ net[r][i].secs = retries[Cardinality({j \in Sleeps(r) : j <= i})]
                  /\ i < Len(net[r]) /\ net[r][i + 1].ev = "post"

\* C6: when the callback fails on attempts 1..k-1 and answers 200 on attempt
\* k (k in 1..4), exactly k POSTs are made, the delays are exactly the first
\* k-1 of 1, 2, 4, 8, each after a failed POST, nothing follows the 200, and
\* the function returns True.
C6_SuccessOnAttemptK ==
    \A r \in Runs :
        OkPosts(r) # {} =>
            LET k == Cardinality(Posts(r)) IN
            /\ k \in 1..4
            /\ Len(net[r]) = 2 * k - 1
            /\ \A j \in 1..(k - 1) :
                  /\ net[r][2 * j - 1].ev = "post" /\ ~net[r][2 * j - 1].ok
                  /\ net[r][2 * j].ev = "sleep" /\ net[r][2 * j].secs = retries[j]
            /\ net[r][2 * k - 1].ev = "post" /\ net[r][2 * k - 1].ok
            /\ pc[r] \in {"respond", "done"}
            /\ loc[r].success
            /\ outcome[r].kind # "raised"

C6_Witness ==
    \E r \in Runs :
        /\ Finished(r)
        /\ Cardinality(Posts(r)) = 3
        /\ [i \in DOMAIN net[r] |-> net[r][i].secs] = <<0, 1, 0, 2, 0>>
        /\ net[r][5].ok
        /\ loc[r].success

\* C7: when publication succeeded and all four notification attempts fail,
\* the result still carries the repository URL and the pages URL of the
\* publication, and reports the notification failure next to them.
C7_PublishedButUnconfirmed ==
    \A r \in Runs :
        (Finished(r) /\ NotifyReturned(r) /\ ~loc[r].success) =>
            /\ outcome[r].kind = "json"
            /\ {"repo_url", "pages_url", "error"} \subseteq DOMAIN outcome[r].body
            /\ outcome[r].body.repo_url = loc[r].repo_url
            /\ outcome[r].body.pages_url = loc[r].pages_url

\* C8: a run in which a step failed ends with a response that has an `error`
\* key: it does not end with an exception and not with the success response.
C8_EveryFailureIsAnErrorResponse ==
    \A r \in Runs :
        (Finished(r) /\ failed[r] # <<>>) => ErrorResponse(outcome[r])

\* C9: a valid submission whose task was already published by an earlier run
\* and that reaches publication ends with an error response, without an
\* exception, and leaves the existing repository as it was.
C9_CollisionIsAnErrorResponse ==
    \A r \in Runs :
        (Finished(r) /\ seen[r].published /\ "publish" \in RangeOf(calls[r])) =>
            /\ ErrorResponse(outcome[r])
            /\ repos[TaskOf(r)] = seen[r].repo

\* C10: all POSTs of one run carry the same payload, the one built before the
\* first attempt from the request and the result of publication.
C10_SamePayloadEveryAttempt ==
    \A r \in Runs :
        \A i \in Posts(r) :
            /\ net[r][i].body = net[r][1].body
            /\ net[r][i].body = Payload(data[r], loc[r])

C10_Witness ==
    \E r \in Runs :
        /\ Cardinality(Posts(r)) = 4
        /\ net[r][7].body = Payload(data[r], loc[r])
        /\ net[r][7].body.nonce = "n2"

\* the run went through every step without a failure and its first POST got a 200
CleanRun(r) ==
    /\ Finished(r)
    /\ calls[r] = Pipeline
    /\ failed[r] = <<>>
    /\ OkPosts(r) = {1}

\* C11: a valid request for task T whose steps all succeed and whose callback
\* answers 200 at once gets {message: "Task completed successfully",
\* repo_url: "https://github.com/<user>/T", pages_url:
\* "https://<user>.github.io/T/"}, and exactly one POST is made, to the
\* request's evaluation_url, carrying the request's nonce.
C11_EndToEnd ==
    \A r \in Runs :
        CleanRun(r) =>
            /\ outcome[r] =
                  Json([message |-> "Task completed successfully",
                        repo_url |-> "https://github.com/" \o Login \o "/" \o TaskOf(r),
                        pages_url |-> "https://" \o Login \o ".github.io/" \o TaskOf(r) \o "/"])
            /\ Cardinality(Posts(r)) = 1
            /\ net[r][1].url = data[r]["evaluation_url"]
            /\ net[r][1].body.nonce = data[r]["nonce"]

\* C14: once a task has been published, no step of any run changes the staged
\* files app.py, README.md and LICENSE of that task.
C14_StagedFilesWrittenOnce ==
    [][\A t \in DOMAIN fs : t \in published => fs'[t] = fs[t]]_vars

\* C17: every notice carries the request's email, task, round and nonce, its
\* commit_sha is "main", and its repo_url and pages_url are the values the
\* success response returns.
C17_NoticeEchoesRequest ==
    \A r \in Runs :
        \A i \in Posts(r) :
            LET b == net[r][i].body IN
            /\ b.email = data[r]["email"]
            /\ b.task = data[r]["task"]
            /\ b.round = data[r]["round"]
            /\ b.nonce = data[r]["nonce"]
            /\ b.commit_sha = "main"
            /\ (Finished(r) /\ loc[r].success) =>
                  /\ outcome[r].kind = "json"
                  /\ outcome[r].body.repo_url = b.repo_url
                  /\ outcome[r].body.pages_url = b.pages_url

C17_Witness ==
    \E r \in Runs :
        /\ Finished(r) /\ loc[r].success
        /\ Posts(r) # {}
        /\ net[r][1].body.nonce = "n2" /\ data[r]["nonce"] = "n2"
        /\ net[r][1].body.task = "t1"
        /\ outcome[r].body.repo_url = net[r][1].body.repo_url
        /\ outcome[r].body.repo_url # None

\* C19: while no shared secret is configured, no request passes the secret
\* check: no run gets beyond validation.
C19_NoSecretNoAccess ==
    \A r \in Runs :
        env.STUDENT_SECRET = None =>
            /\ pc[r] \in {"idle", "await_json", "validate", "done"}
            /\ NoSideEffect(r)

\* the run has called generate_app_code and the call is over
Synthesized(r) == "synth" \in RangeOf(calls[r])

\* C15: generate_app_code makes at most one backend call and never retries:
\* without a configured URL or key it raises without any call, and after a
\* non-200 answer it raises after that one call and returns no source text.
C15_SingleBackendCall ==
    \A r \in Runs :
        Synthesized(r) =>
            /\ aicalls[r] <= 1
            /\ (Falsy(env.AI_PIPE_API_URL) \/ Falsy(env.AI_PIPE_API_KEY)) =>
                  /\ aicalls[r] = 0
                  /\ answer[r] = NoAnswer
                  /\ outcome[r] = Propagated("ValueError: missing configuration")
                  /\ code[r] = NoFile
            /\ (answer[r].kind = "http" /\ answer[r].status # 200) =>
                  /\ aicalls[r] = 1
                  /\ outcome[r] = Propagated("RuntimeError: request failed")
                  /\ code[r] = NoFile

C15_Witness ==
    \E r \in Runs :
        /\ Synthesized(r)
        /\ answer[r].kind = "http" /\ answer[r].status = 500
        /\ aicalls[r] = 1
        /\ outcome[r].kind = "raised"

\* C16: after a 200 answer generate_app_code either returns a non-empty source
\* text or raises the malformed-response error; it raises no other error and
\* never returns an empty text.
C16_MalformedOrNonEmpty ==
    \A r \in Runs :
        (Synthesized(r) /\ answer[r].status = 200) =>
            \/ /\ code[r] # NoFile
               /\ code[r] # <<>>
            \/ /\ code[r] = NoFile
               /\ outcome[r] = Propagated("RuntimeError: unexpected response")

\* the request of run q is taken up and turns out to be for another task than r's
HandleUnrelated(q, r) == ParsePair(q) /\ data'[q]["task"] # TaskOf(r)

\* C12: while a run is in a notification retry delay, a waiting request for
\* an unrelated task can be taken up.
C12_DelayDoesNotBlockOthers ==
    \A r \in Runs : \A q \in Runs \ {r} :
        (pc[r] = "sleep" /\ pc[q] = "await_json") => ENABLED HandleUnrelated(q, r)

\* the run has called create_repo
CreateOver(r) == "publish" \in RangeOf(calls[r])

\* init_git_and_push has returned to the run
PublicationOver(r) ==
    /\ CreateOver(r)
    /\ pc[r] \in {"build_payload", "post", "sleep", "respond"}
       \/ (Finished(r) /\ outcome[r].kind = "json")

\* create_repo created the repository for the run
Created(r) == CreateOver(r) /\ "create_repo" \notin FailedSteps(r)

\* create_repo refused the run's name as taken
Collided(r) == outcome[r] = Propagated("GithubException: name already exists")

\* the run created the repository, pushed into it and enabled its pages
PublishedBy(r) ==
    /\ Created(r)
    /\ loc[r].repo_url = CloneUrl(TaskOf(r))
    /\ repos[TaskOf(r)].exists /\ repos[TaskOf(r)].pages
    /\ repos[TaskOf(r)].content # EmptyFolder

\* C13: of two valid submissions with the same task name that are in flight
\* together and have both called create_repo, the hosting service failing
\* for no other reason than a taken name, exactly one has created the
\* repository and the other one got the name collision; the one that created
\* it is published once its publication is over without a failed step.
C13_ExactlyOneWins ==
    \A r \in Runs : \A q \in Runs \ {r} :
        ( /\ CreateOver(r) /\ CreateOver(q)
          /\ TaskOf(r) = TaskOf(q)
          /\ outcome[r] # Propagated("GithubException")
          /\ outcome[q] # Propagated("GithubException") ) =>
            \E w \in {r, q} :
                LET l == CHOOSE x \in {r, q} : x # w IN
                /\ Created(w) /\ ~Collided(w)
                /\ Collided(l) /\ ~Created(l)
                /\ (PublicationOver(w) /\ FailedSteps(w) \subseteq {"notify"}) => PublishedBy(w)

C13_Witness ==
    /\ env.workers = "many"
    /\ CreateOver("r1") /\ CreateOver("r2")
    /\ PublicationOver("r2") /\ FailedSteps("r2") = {}
    /\ TaskOf("r1") = TaskOf("r2")
    /\ PublishedBy("r2") /\ Collided("r1")
    /\ seen["r1"].repo = NoRepo /\ seen["r2"].repo = NoRepo

\* C18: the app.py pushed to a task's repository is the source text
\* synthesized by the run that created the repository.
C18_PushedSourceIsOwn ==
    \A t \in DOMAIN repos :
        repos[t].content # EmptyFolder => repos[t].content.app = repos[t].by

====
